---- MODULE Spec2Model ----
(***************************************************************************)
(* A model of @gibme/arp (current revision of src/arp.ts): lookup(ip,     *)
(* separator) pings the target, reads the system ARP table with the       *)
(* platform's arp utility and parses the text it prints.                  *)
(*                                                                         *)
(* Strings are TLA+ strings handled character by character with Len,      *)
(* SubSeq and \o, so that split, filter, join, padStart, toUpperCase and  *)
(* includes are computed the way the JavaScript computes them.            *)
(***************************************************************************)
EXTENDS Integers, Sequences, FiniteSets, TLC

(***************************************************************************)
(* Bounds of the model.                                                    *)
(***************************************************************************)
\* lookup calls issued one after the other by one caller
MaxCalls == 2
\* calls of get_gateway_ipv4 and get_gateway_ipv6 in one run
MaxGatewayCalls == 3
\* data chunks end at multiples of ChunkUnit characters or at the end of the stream
ChunkUnit == 16
\* the same, while two calls are in flight
ConcChunkUnit == 48

(***************************************************************************)
(* JavaScript string and array primitives used by the source.              *)
(***************************************************************************)
Ch(s, i) == SubSeq(s, i, i)

Drop(s, n) == SubSeq(s, n + 1, Len(s))

\* String.prototype.includes
includes(s, sub) ==
    \E i \in 1..(Len(s) - Len(sub) + 1) : SubSeq(s, i, i + Len(sub) - 1) = sub

\* the first position from `from` on at which sep occurs in s, 0 when there is none
IndexOf(s, sep, from) ==
    LET hits == {i \in from..(Len(s) - Len(sep) + 1) : SubSeq(s, i, i + Len(sep) - 1) = sep}
    IN  IF hits = {} THEN 0 ELSE CHOOSE i \in hits : \A j \in hits : i <= j

RECURSIVE SplitFrom(_, _, _)
SplitFrom(s, sep, from) ==
    LET i == IndexOf(s, sep, from)
    IN  IF i = 0 THEN <<SubSeq(s, from, Len(s))>>
        ELSE <<SubSeq(s, from, i - 1)>> \o SplitFrom(s, sep, i + Len(sep))

\* String.prototype.split with a non-empty separator: always at least one piece
split(s, sep) == SplitFrom(s, sep, 1)

\* Array.prototype.filter(String): drops the empty strings
filterString(parts) == SelectSeq(parts, LAMBDA p : p # "")

RECURSIVE join(_, _)
\* Array.prototype.join
join(parts, sep) ==
    IF Len(parts) = 0 THEN ""
    ELSE IF Len(parts) = 1 THEN parts[1]
    ELSE parts[1] \o sep \o join(Tail(parts), sep)

LowerCase == "abcdefghijklmnopqrstuvwxyz"
UpperCase == "ABCDEFGHIJKLMNOPQRSTUVWXYZ"

UpperChar(ch) ==
    IF \E i \in 1..26 : Ch(LowerCase, i) = ch
    THEN Ch(UpperCase, CHOOSE i \in 1..26 : Ch(LowerCase, i) = ch)
    ELSE ch

RECURSIVE toUpperCase(_)
\* String.prototype.toUpperCase
toUpperCase(s) ==
    IF s = "" THEN "" ELSE UpperChar(Ch(s, 1)) \o toUpperCase(Drop(s, 1))

RECURSIVE padEnd(_, _, _)
\* String.prototype.padEnd: the fill goes behind
padEnd(s, n, fill) == IF Len(s) >= n THEN s ELSE padEnd(s \o fill, n, fill)

RECURSIVE padStart(_, _, _)
\* String.prototype.padStart(n, fill) with a one-character fill
padStart(s, n, fill) == IF Len(s) >= n THEN s ELSE padStart(fill \o s, n, fill)

RECURSIVE replaceAllChar(_, _, _)
\* String.prototype.replace(/x/g, y) for a one-character pattern x
replaceAllChar(s, x, y) ==
    IF s = "" THEN ""
    ELSE (IF Ch(s, 1) = x THEN y ELSE Ch(s, 1)) \o replaceAllChar(Drop(s, 1), x, y)

\* parts[i] of a JavaScript array (0-based) is defined, i.e. not undefined
Has(parts, i) == i < Len(parts)

\* parts[i] of a JavaScript array (0-based), where it is defined
At(parts, i) == parts[i + 1]

(***************************************************************************)
(* net.isIP: 4 for an IPv4 address, 6 for an IPv6 address, 0 otherwise.    *)
(***************************************************************************)
Digits == "0123456789"
HexDigits == "0123456789abcdefABCDEF"

IsCharOf(ch, alphabet) == \E i \in 1..Len(alphabet) : Ch(alphabet, i) = ch

AllCharsOf(s, alphabet) == \A i \in 1..Len(s) : IsCharOf(Ch(s, i), alphabet)

DigitVal(ch) == (CHOOSE i \in 1..10 : Ch(Digits, i) = ch) - 1

RECURSIVE DecVal(_)
DecVal(s) == IF s = "" THEN 0 ELSE DecVal(SubSeq(s, 1, Len(s) - 1)) * 10 + DigitVal(Ch(s, Len(s)))

\* v4Seg: 25[0-5] | 2[0-4]\d | 1\d\d | [1-9]?\d
IsV4Seg(s) ==
    /\ Len(s) \in 1..3
    /\ AllCharsOf(s, Digits)
    /\ (Len(s) > 1 => Ch(s, 1) # "0")
    /\ DecVal(s) <= 255

IsIPv4(s) ==
    LET segs == split(s, ".")
    IN  Len(segs) = 4 /\ \A i \in 1..4 : IsV4Seg(segs[i])

\* v6Seg: [0-9a-fA-F]{1,4}
IsV6Seg(s) == Len(s) \in 1..4 /\ AllCharsOf(s, HexDigits)

\* colon-hex groups, at most one "::" standing for one or more zero groups
IsIPv6(s) ==
    LET halves == split(s, "::")
        Groups(h) == IF h = "" THEN <<>> ELSE split(h, ":")
        GroupsOk(h) == \A i \in 1..Len(Groups(h)) : IsV6Seg(Groups(h)[i])
    IN  \/ /\ Len(halves) = 1
           /\ Len(Groups(s)) = 8
           /\ GroupsOk(s)
        \/ /\ Len(halves) = 2
           /\ GroupsOk(halves[1]) /\ GroupsOk(halves[2])
           /\ Len(Groups(halves[1])) + Len(Groups(halves[2])) <= 7

isIP(s) == IF IsIPv4(s) THEN 4 ELSE IF IsIPv6(s) THEN 6 ELSE 0

(***************************************************************************)
(* Child processes: spawn(file, args) gives spawnfile = file and           *)
(* spawnargs = [file, ...args].                                            *)
(***************************************************************************)
spawnargs(file, args) == <<file>> \o args

\* the ms delay guarding every spawned process
PROCESS_TIMEOUT == 10000

\* how a settled promise is recorded
Resolved(v) == [kind |-> "resolved", value |-> v, error |-> "", message |-> ""]

Rejected(e, m) == [kind |-> "rejected", value |-> "", error |-> e, message |-> m]

\* an exception thrown inside an event callback: the promise is never settled
Thrown(e) == [kind |-> "thrown", value |-> "", error |-> e, message |-> ""]

Pending == [kind |-> "pending", value |-> "", error |-> "", message |-> ""]

\* ArpFailed without the probe's stderr
ArpFailedNoPing(args, code, errStream, pingErr) ==
    Rejected("ProcessError",
             "Error running arp via [arp " \o join(spawnargs("arp", args), " ") \o "]: "
             \o "Code #" \o code \o "\n" \o errStream)

\* new Error(`Error running arp via [...]: Code #${code}` + '\n' + errStream + ...)
ArpFailed(args, code, errStream, pingErr) ==
    Rejected("ProcessError",
             "Error running arp via [arp " \o join(spawnargs("arp", args), " ") \o "]: "
             \o "Code #" \o code \o "\n" \o errStream
             \o (IF pingErr # "" THEN "\nping stderr: " \o pingErr ELSE ""))

\* new Error('Could not find ip in arp table: ' + ip)
NotFound(ip) == Rejected("NotFound", "Could not find ip in arp table: " \o ip)

(***************************************************************************)
(* The arp.on('close', code => ...) callbacks of the three strategies.     *)
(* code is the exit code as printed ("0", "1", ...), "null" after a kill.  *)
(***************************************************************************)
\* linuxArpClose taking the third token whatever the token count
linuxArpCloseThird(ip, code, buffer, errStream, pingErr) ==
    IF code # "0" THEN ArpFailed(<<"-n", ip>>, code, errStream, pingErr)
    ELSE LET table == split(buffer, "\n")
             parts == filterString(split(At(table, 1), " "))
         IN  IF Len(table) >= 2 /\ Has(parts, 2)
             THEN Resolved(toUpperCase(At(parts, 2)))
             ELSE NotFound(ip)

\* arp.on('close', code => ...) of linux
linuxArpClose(ip, code, buffer, errStream, pingErr) ==
    IF code # "0" THEN ArpFailed(<<"-n", ip>>, code, errStream, pingErr)
    ELSE LET table == split(buffer, "\n")
             parts == filterString(split(At(table, 1), " "))
             idx   == IF Len(parts) = 5 THEN 2 ELSE 1
         IN  IF Len(table) >= 2 /\ Has(parts, idx)
             THEN Resolved(toUpperCase(At(parts, idx)))
             ELSE NotFound(ip)

RECURSIVE windowsScanLoose(_, _, _)
\* windowsScan matching every row whose first token contains ip
windowsScanLoose(table, i, ip) ==
    IF ~(i < Len(table)) THEN NotFound(ip)
    ELSE LET parts == filterString(split(At(table, i), " "))
         IN  IF Has(parts, 0) /\ includes(At(parts, 0), ip)
             THEN IF Has(parts, 1)
                  THEN Resolved(toUpperCase(replaceAllChar(At(parts, 1), "-", ":")))
                  ELSE Thrown("TypeError")
             ELSE windowsScanLoose(table, i + 1, ip)

RECURSIVE windowsScan(_, _, _)
\* for (let i = 3; i < table.length; i++)
windowsScan(table, i, ip) ==
    IF ~(i < Len(table)) THEN NotFound(ip)
    ELSE LET parts == filterString(split(At(table, i), " "))
         IN  IF Has(parts, 0) /\ At(parts, 0) = ip
             THEN IF Has(parts, 1)
                  THEN Resolved(toUpperCase(replaceAllChar(At(parts, 1), "-", ":")))
                  ELSE Thrown("TypeError")
             ELSE windowsScan(table, i + 1, ip)

windowsArpClose(ip, code, buffer, errStream, pingErr) ==
    IF code # "0" THEN ArpFailed(<<"-a", ip>>, code, errStream, pingErr)
    ELSE windowsScan(split(buffer, "\r\n"), 3, ip)

\* padOctets without the padStart
padOctetsNone(token) == join(split(token, ":"), ":")

\* parts[3].split(':').map(octet => octet.padStart(2, '0')).join(':')
padOctets(token) ==
    LET octets == split(token, ":")
    IN  join([i \in 1..Len(octets) |-> padStart(octets[i], 2, "0")], ":")

\* macintoshArpClose with the test of the Linux strategy: code !== 0 alone
macintoshArpCloseStrict(ip, code, buffer, errStream, pingErr) ==
    IF code # "0" THEN ArpFailed(<<"-n", ip>>, code, errStream, pingErr)
    ELSE LET parts == filterString(split(buffer, " "))
         IN  IF ~Has(parts, 3) THEN Thrown("TypeError")
             ELSE IF At(parts, 3) # "no"
                  THEN Resolved(toUpperCase(padOctets(At(parts, 3))))
                  ELSE NotFound(ip)

\* arp.on('close', code => ...) of macintosh
macintoshArpClose(ip, code, buffer, errStream, pingErr) ==
    IF code # "0" /\ errStream # "" THEN ArpFailed(<<"-n", ip>>, code, errStream, pingErr)
    ELSE LET parts == filterString(split(buffer, " "))
         IN  IF ~Has(parts, 3) THEN Thrown("TypeError")
             ELSE IF At(parts, 3) # "no"
                  THEN Resolved(toUpperCase(padOctets(At(parts, 3))))
                  ELSE NotFound(ip)

(***************************************************************************)
(* lookup: validation, platform selection, separator substitution.         *)
(***************************************************************************)
\* strategyOf with the last branch taken for the Linux strategy
strategyOfDefault(platformId) ==
    IF includes(platformId, "win") /\ ~includes(platformId, "darwin") THEN "windows"
    ELSE IF includes(platformId, "darwin") THEN "macintosh"
    ELSE "linux"

\* strategyOf with the test for 'win' in front of the test for 'darwin'
strategyOfWinFirst(platformId) ==
    IF includes(platformId, "linux") THEN "linux"
    ELSE IF includes(platformId, "win") THEN "windows"
    ELSE IF includes(platformId, "darwin") THEN "macintosh"
    ELSE ""

\* the strategy lookup awaits on this process.platform, "" when there is none
strategyOf(platformId) ==
    IF includes(platformId, "linux") THEN "linux"
    ELSE IF includes(platformId, "darwin") THEN "macintosh"
    ELSE IF includes(platformId, "win") THEN "windows"
    ELSE ""

\* separate with String.prototype.replace(':', separator): the first colon only
separateFirst(result, separator) ==
    LET i == IndexOf(result, ":", 1)
    IN  IF i = 0 THEN result
        ELSE SubSeq(result, 1, i - 1) \o separator \o SubSeq(result, i + 1, Len(result))

\* result.split(':').join(separator)
separate(result, separator) == join(split(result, ":"), separator)

\* the arp close callback of the selected strategy
arpClose(strategy, ip, code, buffer, errStream, pingErr) ==
    IF strategy = "linux" THEN linuxArpClose(ip, code, buffer, errStream, pingErr)
    ELSE IF strategy = "macintosh" THEN macintoshArpClose(ip, code, buffer, errStream, pingErr)
    ELSE windowsArpClose(ip, code, buffer, errStream, pingErr)

\* what lookup returns or throws once the strategy's promise has settled
lookupSettle(settled, separator) ==
    IF settled.kind = "resolved" THEN Resolved(separate(settled.value, separator))
    ELSE settled

(***************************************************************************)
(* The host: what the ping and arp utilities print.  A neighbour entry is  *)
(* six octets; every platform's arp prints it in its own format.           *)
(***************************************************************************)
LowerHex == "0123456789abcdef"

HexDigit(n) == Ch(LowerHex, n + 1)

\* %02x
Hex2(n) == HexDigit(n \div 16) \o HexDigit(n % 16)

\* %x
HexMin(n) == IF n < 16 THEN HexDigit(n) ELSE Hex2(n)

\* the hardware address as net-tools arp prints it: aa:bb:cc:dd:ee:0f
LinuxHw(mac) == join([i \in 1..Len(mac) |-> Hex2(mac[i])], ":")

\* the hardware address as Windows arp prints it: aa-bb-cc-dd-ee-0f
WindowsHw(mac) == join([i \in 1..Len(mac) |-> Hex2(mac[i])], "-")

\* the hardware address as macOS arp prints it: aa:bb:cc:dd:ee:f
DarwinHw(mac) == join([i \in 1..Len(mac) |-> HexMin(mac[i])], ":")

LinuxHeader == "Address HWtype HWaddress Flags Mask Iface\n"

\* stdout of `arp -n ip` (net-tools); "masked": the Mask column is filled, six tokens;
\* "headerless": the row alone
LinuxText(form, ip, mac) ==
    IF form = "row" THEN LinuxHeader \o ip \o "  ether  " \o LinuxHw(mac) \o "  C  eth0\n"
    ELSE IF form = "masked"
    THEN LinuxHeader \o ip \o "  ether  " \o LinuxHw(mac) \o "  C  255.255.255.255  eth0\n"
    ELSE IF form = "headerless" THEN ip \o "  ether  " \o LinuxHw(mac) \o "  C  eth0\n"
    ELSE IF form = "incomplete" THEN LinuxHeader \o ip \o "  (incomplete)  eth0\n"
    ELSE IF form = "noentry" THEN ip \o " (" \o ip \o ") -- no entry\n"
    ELSE IF form = "header" THEN LinuxHeader
    ELSE ""

WindowsHeader == "\r\nInterface: 1.2.3.9 --- 0x4\r\n  Internet Address  Physical Address  Type\r\n"

\* a row of the Windows table
WindowsRow(ip, hw, type) == "  " \o ip \o "  " \o hw \o "  " \o type \o "\r\n"

\* another neighbour of the host
OtherHw == "01-02-03-04-05-06"

\* stdout of `arp -a ip` (Windows); "table": the rows of other addresses that ip is a
\* prefix or a part of come first and a second row for ip comes last; "early": no
\* leading empty line, which leaves the row at index 2
WindowsText(form, ip, mac) ==
    IF form = "row" THEN WindowsHeader \o WindowsRow(ip, WindowsHw(mac), "dynamic")
    ELSE IF form = "table"
    THEN WindowsHeader \o WindowsRow(ip \o "0", OtherHw, "dynamic")
                       \o WindowsRow("1" \o ip, OtherHw, "dynamic")
                       \o WindowsRow(ip, WindowsHw(mac), "dynamic")
                       \o WindowsRow(ip, OtherHw, "static")
    ELSE IF form = "early"
    THEN Drop(WindowsHeader, 2) \o WindowsRow(ip, WindowsHw(mac), "dynamic")
    ELSE IF form = "short" THEN WindowsHeader \o "  " \o ip \o "\r\n"
    ELSE IF form = "noentry" THEN "No ARP Entries Found.\r\n"
    ELSE IF form = "header" THEN WindowsHeader
    ELSE ""

\* stdout of `arp -n ip` (macOS)
DarwinText(form, ip, mac) ==
    IF form = "row" THEN "? (" \o ip \o ") at " \o DarwinHw(mac) \o " on en0 ifscope [ethernet]\n"
    ELSE IF form = "incomplete" THEN "? (" \o ip \o ") at (incomplete) on en0 ifscope [ethernet]\n"
    ELSE IF form = "noentry" THEN ip \o " (" \o ip \o ") -- no entry\n"
    ELSE IF form = "short" THEN "? (" \o ip \o ")\n"
    ELSE ""

ArpText(strategy, form, ip, mac) ==
    IF strategy = "linux" THEN LinuxText(form, ip, mac)
    ELSE IF strategy = "macintosh" THEN DarwinText(form, ip, mac)
    ELSE WindowsText(form, ip, mac)

\* the forms of output each platform's arp has
ArpForms(strategy) ==
    IF strategy = "linux"
    THEN {"row", "masked", "headerless", "incomplete", "noentry", "header", "empty"}
    ELSE IF strategy = "macintosh" THEN {"row", "incomplete", "noentry", "short", "empty"}
    ELSE {"row", "table", "early", "short", "noentry", "header", "empty"}

\* neighbour entries of the host: aa:bb:cc:dd:ee:0f, 00:1a:02:03:04:05, 0a:0b:0c:0d:0e:0f
Macs == {<<170, 187, 204, 221, 238, 15>>, <<0, 26, 2, 3, 4, 5>>, <<10, 11, 12, 13, 14, 15>>}

\* process.platform values
Platforms == {"linux", "darwin", "win32", "freebsd"}

\* arguments of lookup
IPs == {"1.2.3.4", "::1", "", "192.168.1", "192.168.1.1.1", "not-an-ip"}
Separators == {":", "-", ""}

\* exit code and stderr of a child process that ends by itself
Endings == {<<"0", "">>, <<"1", "">>, <<"1", "arp: err\n">>, <<"0", "arp: warn\n">>}
PingEndings == {<<"0", "">>, <<"1", "ping: err\n">>}


NoProc == [state |-> "none", args |-> <<>>, form |-> "", mac |-> <<>>,
           out |-> "", outPos |-> 0, pieces |-> FALSE, err |-> "", errPos |-> 0, code |-> ""]

NoTimer == [state |-> "none", ms |-> 0]

Calls == {1, 2}

VARIABLES
    gateway,     \* gateway[i]: the i-th call of get_gateway_ipv4 or get_gateway_ipv6
    universe,    \* what the run draws from: callers, forms of arp output, arguments
    platform,    \* process.platform
    calls,       \* calls[c]: lookup calls caller c has made
    pc,          \* pc[c]: where caller c's lookup call is
    ip,          \* ip[c], separator[c]: its arguments
    separator,
    strategy,    \* strategy[c]: the strategy it awaits, "" when none
    ping,        \* ping[c], arp[c]: its child processes
    arp,
    pingTimer,   \* pingTimer[c], arpTimer[c]: their kill timers
    arpTimer,
    pingErr,     \* pingErr[c], buffer[c], errStream[c]: the closure's accumulators
    buffer,
    errStream,
    spawned,     \* spawned[c]: the spawnargs of the processes the call has spawned
    result,      \* result[c]: lookup's `let result`, the MAC the strategy resolved with
    outcome      \* outcome[c]: how the call's promise has settled

vars == <<gateway, universe, platform, calls, pc, ip, separator, strategy, ping, arp,
          pingTimer, arpTimer, pingErr, buffer, errStream, spawned, result, outcome>>

AllForms ==
    {"row", "table", "early", "masked", "headerless", "incomplete", "noentry", "header",
     "short", "empty"}

\* one caller, calling repeatedly; every form of arp output
Init ==
    /\ universe = [callers |-> {1}, repeat |-> MaxCalls, forms |-> AllForms,
                   macs |-> Macs, ips |-> [c \in Calls |-> IPs], separators |-> Separators,
                   endings |-> Endings, pingEndings |-> PingEndings, chunk |-> ChunkUnit]
    /\ platform \in Platforms
    /\ gateway = <<>>
    /\ calls = [c \in Calls |-> 0]
    /\ pc = [c \in Calls |-> "idle"]
    /\ ip = [c \in Calls |-> ""]
    /\ separator = [c \in Calls |-> ""]
    /\ strategy = [c \in Calls |-> ""]
    /\ ping = [c \in Calls |-> NoProc]
    /\ arp = [c \in Calls |-> NoProc]
    /\ pingTimer = [c \in Calls |-> NoTimer]
    /\ arpTimer = [c \in Calls |-> NoTimer]
    /\ pingErr = [c \in Calls |-> ""]
    /\ buffer = [c \in Calls |-> ""]
    /\ errStream = [c \in Calls |-> ""]
    /\ spawned = [c \in Calls |-> <<>>]
    /\ result = [c \in Calls |-> ""]
    /\ outcome = [c \in Calls |-> Pending]

(***************************************************************************)
(* Child processes and timers.                                             *)
(***************************************************************************)
\* spawn(file, args): a running process that will print out and err and end with code;
\* pieces: its stdout has come in more than one data event
Spawn(args, form, mac, out, ending) ==
    [state |-> "running", args |-> args, form |-> form, mac |-> mac,
     out |-> out, outPos |-> 0, pieces |-> FALSE,
     err |-> ending[2], errPos |-> 0, code |-> ending[1]]

\* setTimeout(() => { proc.kill(); }, ms)
withTimeout(ms) == [state |-> "armed", ms |-> ms]

\* a close callback without its clearTimeout: the timer stays as it is
clearTimeoutNever(timer) == timer

\* clearTimeout: nothing to clear once the timer has fired
clearTimeout(timer) == IF timer.state = "armed" THEN [timer EXCEPT !.state = "cleared"] ELSE timer

\* proc.kill(): SIGTERM ends a running process, which then closes with a null code;
\* what it had not yet printed is lost
kill(proc) ==
    IF proc.state = "running"
    THEN [proc EXCEPT !.state = "killed", !.code = "null",
                      !.out = SubSeq(proc.out, 1, proc.outPos),
                      !.err = SubSeq(proc.err, 1, proc.errPos)]
    ELSE proc

\* where the next data chunk of a stream of len characters, read up to pos, may end
ChunkEnds(len, pos) == {e \in (pos + 1)..len : e = len \/ e % universe.chunk = 0}

pingArgs(strat, addr) == IF strat = "windows" THEN <<"-n", "1", addr>> ELSE <<"-c", "1", addr>>

arpArgs(strat, addr) == IF strat = "windows" THEN <<"-a", addr>> ELSE <<"-n", addr>>

(***************************************************************************)
(* lookup(ip, separator), up to the first await.                           *)
(***************************************************************************)
CanCall(c) ==
    /\ c \in universe.callers
    /\ pc[c] \in {"idle", "settled"}
    /\ calls[c] < universe.repeat

\* every call starts from fresh closures
Begin(c, addr, sep, strat) ==
    /\ calls' = [calls EXCEPT ![c] = @ + 1]
    /\ ip' = [ip EXCEPT ![c] = addr]
    /\ separator' = [separator EXCEPT ![c] = sep]
    /\ strategy' = [strategy EXCEPT ![c] = strat]
    /\ arp' = [arp EXCEPT ![c] = NoProc]
    /\ arpTimer' = [arpTimer EXCEPT ![c] = NoTimer]
    /\ pingErr' = [pingErr EXCEPT ![c] = ""]
    /\ buffer' = [buffer EXCEPT ![c] = ""]
    /\ errStream' = [errStream EXCEPT ![c] = ""]
    /\ result' = [result EXCEPT ![c] = ""]
    /\ UNCHANGED <<gateway, universe, platform>>

\* isIP(ip) === 0: throw before anything else
LookupInvalid(c) ==
    \E addr \in universe.ips[c], sep \in universe.separators :
        /\ CanCall(c)
        /\ isIP(addr) = 0
        /\ Begin(c, addr, sep, "")
        /\ pc' = [pc EXCEPT ![c] = "settled"]
        /\ outcome' = [outcome EXCEPT ![c] =
                          Rejected("InvalidAddress", addr \o " is not a valid IP address")]
        /\ ping' = [ping EXCEPT ![c] = NoProc]
        /\ pingTimer' = [pingTimer EXCEPT ![c] = NoTimer]
        /\ spawned' = [spawned EXCEPT ![c] = <<>>]

\* LookupUnknown with the platform test moved in front of the validation
LookupUnknownFirst(c) ==
    \E addr \in universe.ips[c], sep \in universe.separators :
        /\ CanCall(c)
        /\ strategyOf(platform) = ""
        /\ Begin(c, addr, sep, "")
        /\ pc' = [pc EXCEPT ![c] = "settled"]
        /\ outcome' = [outcome EXCEPT ![c] =
                          Rejected("UnsupportedPlatform", "Unknown platform detected")]
        /\ ping' = [ping EXCEPT ![c] = NoProc]
        /\ pingTimer' = [pingTimer EXCEPT ![c] = NoTimer]
        /\ spawned' = [spawned EXCEPT ![c] = <<>>]

\* no branch of the platform test matches
LookupUnknown(c) ==
    \E addr \in universe.ips[c], sep \in universe.separators :
        /\ CanCall(c)
        /\ isIP(addr) # 0
        /\ strategyOf(platform) = ""
        /\ Begin(c, addr, sep, "")
        /\ pc' = [pc EXCEPT ![c] = "settled"]
        /\ outcome' = [outcome EXCEPT ![c] =
                          Rejected("UnsupportedPlatform", "Unknown platform detected")]
        /\ ping' = [ping EXCEPT ![c] = NoProc]
        /\ pingTimer' = [pingTimer EXCEPT ![c] = NoTimer]
        /\ spawned' = [spawned EXCEPT ![c] = <<>>]

\* linux(ip), macintosh(ip) or windows(ip) up to the listeners: spawn ping, arm its timer
StartProbe(c, addr, sep, e) ==
    /\ Begin(c, addr, sep, strategyOf(platform))
    /\ pc' = [pc EXCEPT ![c] = "ping"]
    /\ outcome' = [outcome EXCEPT ![c] = Pending]
    /\ ping' = [ping EXCEPT ![c] =
                   Spawn(pingArgs(strategyOf(platform), addr), "", <<>>, "", e)]
    /\ pingTimer' = [pingTimer EXCEPT ![c] = withTimeout(PROCESS_TIMEOUT)]
    /\ spawned' = [spawned EXCEPT ![c] =
                      <<spawnargs("ping", pingArgs(strategyOf(platform), addr))>>]

\* LookupSpawn with a cache of resolved addresses in front of the strategy
LookupSpawnCached(c) ==
    \E addr \in universe.ips[c], sep \in universe.separators, e \in universe.pingEndings :
        /\ CanCall(c)
        /\ isIP(addr) # 0
        /\ strategyOf(platform) # ""
        /\ IF outcome[c].kind = "resolved" /\ ip[c] = addr
           THEN /\ calls' = [calls EXCEPT ![c] = @ + 1]
                /\ separator' = [separator EXCEPT ![c] = sep]
                /\ outcome' = [outcome EXCEPT ![c] = Resolved(separate(result[c], sep))]
                /\ spawned' = [spawned EXCEPT ![c] = <<>>]
                /\ ping' = [ping EXCEPT ![c] = NoProc]
                /\ arp' = [arp EXCEPT ![c] = NoProc]
                /\ pingTimer' = [pingTimer EXCEPT ![c] = NoTimer]
                /\ arpTimer' = [arpTimer EXCEPT ![c] = NoTimer]
                /\ UNCHANGED <<gateway, universe, platform, pc, ip, strategy, pingErr, buffer,
                               errStream, result>>
           ELSE StartProbe(c, addr, sep, e)

\* a valid address on a supported platform: the call awaits the strategy
LookupSpawn(c) ==
    \E addr \in universe.ips[c], sep \in universe.separators, e \in universe.pingEndings :
        /\ CanCall(c)
        /\ isIP(addr) # 0
        /\ strategyOf(platform) # ""
        /\ StartProbe(c, addr, sep, e)

(***************************************************************************)
(* The echo probe.                                                         *)
(***************************************************************************)
\* ping.stderr.on('data', data => { pingErr += data; })
PingStderrData(c) ==
    /\ pc[c] = "ping"
    /\ ping[c].state = "running"
    /\ \E e \in ChunkEnds(Len(ping[c].err), ping[c].errPos) :
        /\ pingErr' = [pingErr EXCEPT ![c] = @ \o SubSeq(ping[c].err, ping[c].errPos + 1, e)]
        /\ ping' = [ping EXCEPT ![c].errPos = e]
    /\ UNCHANGED <<gateway, universe, platform, calls, pc, ip, separator, strategy, arp,
                   pingTimer, arpTimer, buffer, errStream, spawned, result, outcome>>

\* the process ends by itself, its output read to the end
PingExit(c) ==
    /\ pc[c] = "ping"
    /\ ping[c].state = "running"
    /\ ping[c].errPos = Len(ping[c].err)
    /\ ping' = [ping EXCEPT ![c].state = "exited"]
    /\ UNCHANGED <<gateway, universe, platform, calls, pc, ip, separator, strategy, arp,
                   pingTimer, arpTimer, pingErr, buffer, errStream, spawned, result, outcome>>

\* PROCESS_TIMEOUT ms have passed and the timer has not been cleared
PingTimeout(c) ==
    /\ pingTimer[c].state = "armed"
    /\ pingTimer' = [pingTimer EXCEPT ![c].state = "fired"]
    /\ ping' = [ping EXCEPT ![c] = kill(@)]
    /\ UNCHANGED <<gateway, universe, platform, calls, pc, ip, separator, strategy, arp,
                   arpTimer, pingErr, buffer, errStream, spawned, result, outcome>>

\* spawn arp, arm its timer, start from empty accumulators
StartReader(c) ==
    /\ \E form \in universe.forms \cap ArpForms(strategy[c]),
          mac \in universe.macs, e \in universe.endings :
        /\ (form # "row" => mac = CHOOSE m \in universe.macs : TRUE)
        /\ arp' = [arp EXCEPT ![c] =
                      Spawn(arpArgs(strategy[c], ip[c]), form, mac,
                            ArpText(strategy[c], form, ip[c], mac), e)]
    /\ arpTimer' = [arpTimer EXCEPT ![c] = withTimeout(PROCESS_TIMEOUT)]
    /\ buffer' = [buffer EXCEPT ![c] = ""]
    /\ errStream' = [errStream EXCEPT ![c] = ""]
    /\ spawned' = [spawned EXCEPT ![c] =
                      Append(@, spawnargs("arp", arpArgs(strategy[c], ip[c])))]
    /\ pc' = [pc EXCEPT ![c] = "arp"]

\* PingClose listening to ping's 'spawn' event instead of its 'close' event
PingCloseOnSpawn(c) ==
    /\ pc[c] = "ping"
    /\ ping[c].state = "running"
    /\ StartReader(c)
    /\ pingTimer' = [pingTimer EXCEPT ![c] = clearTimeout(@)]
    /\ UNCHANGED <<gateway, universe, platform, calls, ip, separator, strategy, ping, pingErr,
                   result, outcome>>

\* PingClose that gives up when the probe did not exit with 0
PingCloseChecked(c) ==
    /\ pc[c] = "ping"
    /\ ping[c].state \in {"exited", "killed"}
    /\ pingTimer' = [pingTimer EXCEPT ![c] = clearTimeout(@)]
    /\ ping' = [ping EXCEPT ![c].state = "closed"]
    /\ IF ping[c].code = "0"
       THEN StartReader(c) /\ UNCHANGED <<result, outcome>>
       ELSE /\ pc' = [pc EXCEPT ![c] = "settled"]
            /\ outcome' = [outcome EXCEPT ![c] = Rejected("ProcessError", pingErr[c])]
            /\ UNCHANGED <<arp, arpTimer, buffer, errStream, spawned, result>>
    /\ UNCHANGED <<gateway, universe, platform, calls, ip, separator, strategy, pingErr>>

\* ping.on('close', () => { clearTimeout(pingTimer); spawn arp, arm its timer })
PingClose(c) ==
    /\ pc[c] = "ping"
    /\ ping[c].state \in {"exited", "killed"}
    /\ StartReader(c)
    /\ pingTimer' = [pingTimer EXCEPT ![c] = clearTimeout(@)]
    /\ ping' = [ping EXCEPT ![c].state = "closed"]
    /\ UNCHANGED <<gateway, universe, platform, calls, ip, separator, strategy, pingErr,
                   result, outcome>>

(***************************************************************************)
(* The table reader.                                                       *)
(***************************************************************************)
\* ArpStdoutData with one buffer at module level instead of one per call
ArpStdoutDataShared(c) ==
    /\ pc[c] = "arp"
    /\ arp[c].state = "running"
    /\ \E e \in ChunkEnds(Len(arp[c].out), arp[c].outPos) :
        /\ buffer' = [d \in Calls |-> buffer[d] \o SubSeq(arp[c].out, arp[c].outPos + 1, e)]
        /\ arp' = [arp EXCEPT ![c].outPos = e]
    /\ UNCHANGED <<gateway, universe, platform, calls, pc, ip, separator, strategy, ping,
                   pingTimer, arpTimer, pingErr, errStream, spawned, result, outcome>>

\* ArpStdoutData parsing as it reads: the buffer holds the last chunk only
ArpStdoutDataLast(c) ==
    /\ pc[c] = "arp"
    /\ arp[c].state = "running"
    /\ \E e \in ChunkEnds(Len(arp[c].out), arp[c].outPos) :
        /\ buffer' = [buffer EXCEPT ![c] = SubSeq(arp[c].out, arp[c].outPos + 1, e)]
        /\ arp' = [arp EXCEPT ![c].outPos = e, ![c].pieces = (@ \/ e < Len(arp[c].out))]
    /\ UNCHANGED <<gateway, universe, platform, calls, pc, ip, separator, strategy, ping,
                   pingTimer, arpTimer, pingErr, errStream, spawned, result, outcome>>

\* arp.stdout.on('data', data => { buffer += data; })
ArpStdoutData(c) ==
    /\ pc[c] = "arp"
    /\ arp[c].state = "running"
    /\ \E e \in ChunkEnds(Len(arp[c].out), arp[c].outPos) :
        /\ buffer' = [buffer EXCEPT ![c] = @ \o SubSeq(arp[c].out, arp[c].outPos + 1, e)]
        /\ arp' = [arp EXCEPT ![c].outPos = e, ![c].pieces = (@ \/ e < Len(arp[c].out))]
    /\ UNCHANGED <<gateway, universe, platform, calls, pc, ip, separator, strategy, ping,
                   pingTimer, arpTimer, pingErr, errStream, spawned, result, outcome>>

\* arp.stderr.on('data', data => { errStream += data; })
ArpStderrData(c) ==
    /\ pc[c] = "arp"
    /\ arp[c].state = "running"
    /\ \E e \in ChunkEnds(Len(arp[c].err), arp[c].errPos) :
        /\ errStream' = [errStream EXCEPT ![c] = @ \o SubSeq(arp[c].err, arp[c].errPos + 1, e)]
        /\ arp' = [arp EXCEPT ![c].errPos = e]
    /\ UNCHANGED <<gateway, universe, platform, calls, pc, ip, separator, strategy, ping,
                   pingTimer, arpTimer, pingErr, buffer, spawned, result, outcome>>

\* the process ends by itself, its output read to the end
ArpExit(c) ==
    /\ pc[c] = "arp"
    /\ arp[c].state = "running"
    /\ arp[c].outPos = Len(arp[c].out)
    /\ arp[c].errPos = Len(arp[c].err)
    /\ arp' = [arp EXCEPT ![c].state = "exited"]
    /\ UNCHANGED <<gateway, universe, platform, calls, pc, ip, separator, strategy, ping,
                   pingTimer, arpTimer, pingErr, buffer, errStream, spawned, result, outcome>>

\* PROCESS_TIMEOUT ms have passed and the timer has not been cleared
ArpTimeout(c) ==
    /\ arpTimer[c].state = "armed"
    /\ arpTimer' = [arpTimer EXCEPT ![c].state = "fired"]
    /\ arp' = [arp EXCEPT ![c] = kill(@)]
    /\ UNCHANGED <<gateway, universe, platform, calls, pc, ip, separator, strategy, ping,
                   pingTimer, pingErr, buffer, errStream, spawned, result, outcome>>

\* arp.on('close', code => { clearTimeout(arpTimer); ... resolve or reject })
\* and, once the strategy's promise has settled, the rest of lookup
ArpClose(c) ==
    /\ pc[c] = "arp"
    /\ arp[c].state \in {"exited", "killed"}
    /\ LET settled == arpClose(strategy[c], ip[c], arp[c].code,
                               buffer[c], errStream[c], pingErr[c])
       IN  /\ result' = [result EXCEPT ![c] = settled.value]
           /\ outcome' = [outcome EXCEPT ![c] = lookupSettle(settled, separator[c])]
           /\ pc' = [pc EXCEPT ![c] = IF settled.kind = "thrown" THEN "thrown" ELSE "settled"]
    /\ arpTimer' = [arpTimer EXCEPT ![c] = clearTimeout(@)]
    /\ arp' = [arp EXCEPT ![c].state = "closed"]
    /\ UNCHANGED <<gateway, universe, platform, calls, ip, separator, strategy, ping,
                   pingTimer, pingErr, buffer, errStream, spawned>>

Next ==
    \E c \in Calls :
        \/ LookupInvalid(c)
        \/ LookupUnknown(c)
        \/ LookupSpawn(c)
        \/ PingStderrData(c)
        \/ PingExit(c)
        \/ PingTimeout(c)
        \/ PingClose(c)
        \/ ArpStdoutData(c)
        \/ ArpStderrData(c)
        \/ ArpExit(c)
        \/ ArpTimeout(c)
        \/ ArpClose(c)

Spec == Init /\ [][Next]_vars

\* two callers with a lookup call each in flight at the same time, for the same
\* address or for different ones
InitConc ==
    /\ universe = [callers |-> Calls, repeat |-> 1, forms |-> {"row", "noentry"},
                   macs |-> {<<0, 26, 2, 3, 4, 5>>},
                   ips |-> [c \in Calls |-> IF c = 1 THEN {"1.2.3.4"} ELSE {"1.2.3.4", "::1", ""}],
                   separators |-> {":"},
                   endings |-> {<<"0", "arp: warn\n">>},
                   pingEndings |-> {<<"1", "ping: err\n">>}, chunk |-> ConcChunkUnit]
    /\ platform \in Platforms
    /\ gateway = <<>>
    /\ calls = [c \in Calls |-> 0]
    /\ pc = [c \in Calls |-> "idle"]
    /\ ip = [c \in Calls |-> ""]
    /\ separator = [c \in Calls |-> ""]
    /\ strategy = [c \in Calls |-> ""]
    /\ ping = [c \in Calls |-> NoProc]
    /\ arp = [c \in Calls |-> NoProc]
    /\ pingTimer = [c \in Calls |-> NoTimer]
    /\ arpTimer = [c \in Calls |-> NoTimer]
    /\ pingErr = [c \in Calls |-> ""]
    /\ buffer = [c \in Calls |-> ""]
    /\ errStream = [c \in Calls |-> ""]
    /\ spawned = [c \in Calls |-> <<>>]
    /\ result = [c \in Calls |-> ""]
    /\ outcome = [c \in Calls |-> Pending]

SpecConc == InitConc /\ [][Next]_vars

\* the values process.platform has in Node.js
NodePlatforms ==
    {"aix", "android", "cygwin", "darwin", "freebsd", "linux", "netbsd", "openbsd",
     "sunos", "win32"}

\* one caller on each of the hosts Node.js runs on
InitPlatforms ==
    /\ universe = [callers |-> {1}, repeat |-> MaxCalls, forms |-> {"row"},
                   macs |-> {<<0, 26, 2, 3, 4, 5>>},
                   ips |-> [c \in Calls |-> {"1.2.3.4", "not-an-ip"}],
                   separators |-> {":"},
                   endings |-> {<<"0", "arp: warn\n">>},
                   pingEndings |-> {<<"1", "ping: err\n">>}, chunk |-> ConcChunkUnit]
    /\ platform \in NodePlatforms
    /\ gateway = <<>>
    /\ calls = [c \in Calls |-> 0]
    /\ pc = [c \in Calls |-> "idle"]
    /\ ip = [c \in Calls |-> ""]
    /\ separator = [c \in Calls |-> ""]
    /\ strategy = [c \in Calls |-> ""]
    /\ ping = [c \in Calls |-> NoProc]
    /\ arp = [c \in Calls |-> NoProc]
    /\ pingTimer = [c \in Calls |-> NoTimer]
    /\ arpTimer = [c \in Calls |-> NoTimer]
    /\ pingErr = [c \in Calls |-> ""]
    /\ buffer = [c \in Calls |-> ""]
    /\ errStream = [c \in Calls |-> ""]
    /\ spawned = [c \in Calls |-> <<>>]
    /\ result = [c \in Calls |-> ""]
    /\ outcome = [c \in Calls |-> Pending]

SpecPlatforms == InitPlatforms /\ [][Next]_vars

(***************************************************************************)
(* get_gateway_ipv4 and get_gateway_ipv6 over default-gateway.             *)
(***************************************************************************)
\* IP versions: gateway4async and gateway6async
Families == {4, 6}

\* what the library call does: its promise resolves with { gateway, ... }, its
\* promise rejects (no default route), or the call itself throws
LibraryOutcomes == {"resolves", "rejects", "throws"}

\* the default route of the host
GatewayAddress(family) == IF family = 4 THEN "192.168.1.1" ELSE "fe80::1"

\* a call awaiting the library's promise
Awaiting(family, lib) ==
    [family |-> family, lib |-> lib, state |-> "awaiting", type |-> "", value |-> ""]

\* get_gateway without the try/catch: the library's failure is the caller's
getGatewayUncaught(family, lib) ==
    IF lib = "resolves"
    THEN [family |-> family, lib |-> lib, state |-> "returned",
          type |-> "string", value |-> GatewayAddress(family)]
    ELSE [family |-> family, lib |-> lib, state |-> "failed", type |-> "", value |-> ""]

\* try { return (await defaultGateway.gateway4async()).gateway; } catch { return undefined; }
getGateway(family, lib) ==
    IF lib = "resolves"
    THEN [family |-> family, lib |-> lib, state |-> "returned",
          type |-> "string", value |-> GatewayAddress(family)]
    ELSE [family |-> family, lib |-> lib, state |-> "returned",
          type |-> "undefined", value |-> ""]

\* the call, up to the await; a library call that throws is over at once
GetGatewayCall(family) ==
    /\ Len(gateway) < MaxGatewayCalls
    /\ \E lib \in LibraryOutcomes :
        gateway' = Append(gateway, IF lib = "throws" THEN getGateway(family, lib)
                                   ELSE Awaiting(family, lib))
    /\ UNCHANGED <<universe, platform, calls, pc, ip, separator, strategy, ping, arp,
                   pingTimer, arpTimer, pingErr, buffer, errStream, spawned, result, outcome>>

\* the library's promise settles and the call returns
GetGatewaySettled(i) ==
    /\ gateway[i].state = "awaiting"
    /\ gateway' = [gateway EXCEPT ![i] = getGateway(gateway[i].family, gateway[i].lib)]
    /\ UNCHANGED <<universe, platform, calls, pc, ip, separator, strategy, ping, arp,
                   pingTimer, arpTimer, pingErr, buffer, errStream, spawned, result, outcome>>

NextGateway ==
    \/ \E family \in Families : GetGatewayCall(family)
    \/ \E i \in 1..MaxGatewayCalls : i <= Len(gateway) /\ GetGatewaySettled(i)

SpecGateway == Init /\ [][NextGateway]_vars

(***************************************************************************)
(* Properties.                                                             *)
(***************************************************************************)
\* the call of caller c has returned, thrown or died in a callback
Over(c) == pc[c] \in {"settled", "thrown"}

\* strings the tests and the specification list as invalid addresses
InvalidSamples == {"", "192.168.1", "192.168.1.1.1", "not-an-ip"}

ValidSamples == {"1.2.3.4", "::1"}

NothingSpawned(c) ==
    /\ spawned[c] = <<>>
    /\ ping[c].state = "none"
    /\ arp[c].state = "none"
    /\ pingTimer[c].state = "none"
    /\ arpTimer[c].state = "none"

\* C1: a call with an address that is not a valid IPv4 or IPv6 address is rejected
\* with InvalidAddress and spawns neither ping nor arp, on every platform
C1_InvalidAddressFailsFast ==
    \A c \in Calls :
        (calls[c] > 0 /\ ip[c] \in InvalidSamples) =>
            /\ pc[c] = "settled"
            /\ outcome[c].kind = "rejected"
            /\ outcome[c].error = "InvalidAddress"
            /\ NothingSpawned(c)

C1_Witness ==
    \E c \in Calls :
        /\ pc[c] = "settled"
        /\ ip[c] = "192.168.1"
        /\ platform = "freebsd"
        /\ outcome[c].error = "InvalidAddress"
        /\ NothingSpawned(c)

\* C10: on a platform that matches none of the three strategies a call with a valid
\* address is rejected with UnsupportedPlatform and spawns no child process
C10_UnknownPlatformFails ==
    \A c \in Calls :
        (/\ calls[c] > 0
         /\ ip[c] \in ValidSamples
         /\ ~includes(platform, "linux")
         /\ ~includes(platform, "darwin")
         /\ ~includes(platform, "win")) =>
            /\ pc[c] = "settled"
            /\ outcome[c].kind = "rejected"
            /\ outcome[c].error = "UnsupportedPlatform"
            /\ NothingSpawned(c)

C10_Witness ==
    \E c \in Calls :
        /\ pc[c] = "settled"
        /\ ip[c] = "::1"
        /\ platform = "freebsd"
        /\ outcome[c].error = "UnsupportedPlatform"
        /\ NothingSpawned(c)

\* the kill timer of a child process of the call has fired and killed it
TimedOut(c) == ping[c].state # "none" /\ (ping[c].code = "null" \/ arp[c].code = "null")

\* C2: a call one of whose processes was killed by its timer fails with Timeout and
\* does not hang
C2_TimeoutFails ==
    \A c \in Calls :
        (Over(c) /\ TimedOut(c)) =>
            /\ pc[c] = "settled"
            /\ outcome[c].kind = "rejected"
            /\ outcome[c].error = "Timeout"

UpperHex == "0123456789ABCDEF"

\* s matches ^([0-9A-F]{2}sep){5}[0-9A-F]{2}$
IsMac(s, sep) ==
    LET w == 2 + Len(sep)
    IN  /\ Len(s) = 12 + 5 * Len(sep)
        /\ \A k \in 0..5 :
            /\ IsCharOf(Ch(s, k * w + 1), UpperHex)
            /\ IsCharOf(Ch(s, k * w + 2), UpperHex)
            /\ (k < 5 => SubSeq(s, k * w + 3, k * w + w) = sep)

\* the table reader ended by itself with exit code 0, all it printed was read
ExitedZero(c) == arp[c].state = "closed" /\ arp[c].code = "0"

\* forms of output without a row for the address
NoEntryForms == {"noentry", "header", "empty"}

\* C3: when arp exits with 0 and prints no row for the address, the call is rejected
\* with NotFound, on every platform strategy
C3_NoEntryNotFound ==
    \A c \in Calls :
        (Over(c) /\ ExitedZero(c) /\ arp[c].form \in NoEntryForms) =>
            /\ pc[c] = "settled"
            /\ outcome[c].kind = "rejected"
            /\ outcome[c].error = "NotFound"

\* C4: every value a call resolves with is six two-digit uppercase hex octets
C4_ResolvedIsMac ==
    \A c \in Calls :
        (pc[c] = "settled" /\ outcome[c].kind = "resolved") =>
            IsMac(outcome[c].value, separator[c])

HexVal(ch) == (CHOOSE i \in 1..16 : Ch(UpperHex, i) = ch) - 1

\* the six octets of a MAC string whose octets are sep apart
OctetsOf(s, sep) ==
    LET w == 2 + Len(sep)
    IN  [k \in 1..6 |-> 16 * HexVal(Ch(s, (k - 1) * w + 1)) + HexVal(Ch(s, (k - 1) * w + 2))]

\* arp exited with 0 and printed the row of the address in the platform's format
KnownNeighbour(c) == Over(c) /\ ExitedZero(c) /\ arp[c].form = "row"

RECURSIVE Substitute(_, _)
\* s with every ':' replaced by sep and nothing else changed
Substitute(s, sep) ==
    IF s = "" THEN ""
    ELSE (IF SubSeq(s, 1, 1) = ":" THEN sep ELSE SubSeq(s, 1, 1))
         \o Substitute(SubSeq(s, 2, Len(s)), sep)

\* C6: what lookup(ip, sep) resolves with is the strategy's ':'-joined result with
\* every ':' replaced by sep; for a known neighbour that is the row's six octets,
\* sep apart, 12 hex characters when sep is empty
C6_SeparatorSubstitution ==
    \A c \in Calls :
        (pc[c] = "settled" /\ outcome[c].kind = "resolved") =>
            /\ outcome[c].value = Substitute(result[c], separator[c])
            /\ KnownNeighbour(c) =>
                /\ IsMac(result[c], ":")
                /\ IsMac(outcome[c].value, separator[c])
                /\ OctetsOf(outcome[c].value, separator[c]) = arp[c].mac
                /\ (separator[c] = "" =>
                       Len(outcome[c].value) = 12 /\ AllCharsOf(outcome[c].value, UpperHex))

C6_Witness ==
    \E c \in Calls :
        /\ KnownNeighbour(c)
        /\ separator[c] = ""
        /\ result[c] = "AA:BB:CC:DD:EE:0F"
        /\ outcome[c] = Resolved("AABBCCDDEE0F")

\* the process has been spawned and its close event has not been handled
Alive(proc) == proc.state \in {"running", "exited", "killed"}

\* C7: arp is spawned only once ping's close event has been handled; the two child
\* processes of a call are never alive together
C7_StrictlySequential ==
    \A c \in Calls :
        /\ ~(Alive(ping[c]) /\ Alive(arp[c]))
        /\ (arp[c].state # "none" \/ Len(spawned[c]) >= 2) => ping[c].state = "closed"

C7_Witness ==
    \E c \in Calls :
        /\ ping[c].state = "closed"
        /\ arp[c].state = "running"
        /\ spawned[c] = <<<<"ping", "-c", "1", "1.2.3.4">>, <<"arp", "-n", "1.2.3.4">>>>

\* C8: a call with a valid address on a supported platform spawns one ping and then
\* one arp, never more, whatever its outcome, and so does a later call
C8_TwoProcessesPerCall ==
    \A c \in Calls :
        /\ Len(spawned[c]) <= 2
        /\ (Over(c) /\ ip[c] \in ValidSamples /\ platform \in {"linux", "darwin", "win32"}) =>
            /\ Len(spawned[c]) = 2
            /\ spawned[c][1][1] = "ping"
            /\ spawned[c][1][Len(spawned[c][1])] = ip[c]
            /\ spawned[c][2][1] = "arp"
            /\ spawned[c][2][Len(spawned[c][2])] = ip[c]

C8_Witness ==
    \E c \in Calls :
        /\ calls[c] = 2
        /\ pc[c] = "settled"
        /\ TimedOut(c)
        /\ outcome[c].error = "ProcessError"
        /\ Len(spawned[c]) = 2

\* what a process has printed so far
EmittedOut(proc) == SubSeq(proc.out, 1, proc.outPos)

EmittedErr(proc) == SubSeq(proc.err, 1, proc.errPos)

\* the outcome of the call of caller c, had it run alone with what its own
\* processes printed and the code its arp closed with
Alone(c) ==
    lookupSettle(arpClose(strategy[c], ip[c], arp[c].code, EmittedOut(arp[c]),
                          EmittedErr(arp[c]), EmittedErr(ping[c])),
                 separator[c])

\* C9: with two calls in flight, each call accumulates what its own processes print
\* and nothing else, and its outcome is the one it would have alone
C9_CallsShareNothing ==
    \A c \in Calls :
        /\ pc[c] \in {"ping", "arp"} => pingErr[c] = EmittedErr(ping[c])
        /\ pc[c] = "arp" => buffer[c] = EmittedOut(arp[c]) /\ errStream[c] = EmittedErr(arp[c])
        /\ (Over(c) /\ strategy[c] # "") => outcome[c] = Alone(c)

C9_Witness ==
    /\ \A c \in Calls : pc[c] = "settled"
    /\ ip[1] = ip[2]
    /\ outcome[1].kind = "resolved"
    /\ outcome[2].error = "ProcessError"
    /\ ping[1].code = "null"

\* C11: get_gateway_ipv4 and get_gateway_ipv6 never fail; when the library throws or
\* rejects they return undefined, so every result is a string or undefined
C11_GatewayNeverFails ==
    \A i \in 1..Len(gateway) :
        /\ gateway[i].state \in {"awaiting", "returned"}
        /\ gateway[i].state = "returned" =>
            /\ gateway[i].type \in {"string", "undefined"}
            /\ gateway[i].lib \in {"rejects", "throws"} => gateway[i].type = "undefined"
            /\ gateway[i].type = "string" => isIP(gateway[i].value) = gateway[i].family

C11_Witness ==
    /\ Len(gateway) = 3
    /\ gateway[1].lib = "rejects" /\ gateway[1].family = 4 /\ gateway[1].type = "undefined"
    /\ gateway[2].lib = "throws" /\ gateway[2].family = 6 /\ gateway[2].type = "undefined"
    /\ gateway[3].lib = "resolves" /\ gateway[3].state = "returned"
    /\ gateway[3].value = "192.168.1.1"

\* the outcome of the call of caller c, had its probe printed nothing on stderr
ProbeSilent(c) ==
    lookupSettle(arpClose(strategy[c], ip[c], arp[c].code, buffer[c], errStream[c], ""),
                 separator[c])

\* the diagnostic text a ProcessError message ends with
ProbeDiagnostic(c) == IF pingErr[c] # "" THEN "\nping stderr: " \o pingErr[c] ELSE ""

\* C12: the probe's exit code and stderr never influence control flow: whatever they
\* were, the table reader runs and the call settles as it would with the same reader
\* code, stdout and stderr after a silent probe; the probe's stderr only shows as text
\* appended to a ProcessError message
C12_ProbeNeverDecides ==
    \A c \in Calls :
        /\ (ping[c].state = "closed" /\ ping[c].code \in {"0", "1", "null"}) =>
                (arp[c].state # "none" /\ Len(spawned[c]) = 2)
        /\ (Over(c) /\ strategy[c] # "") =>
            /\ ping[c].state = "closed" /\ arp[c].state = "closed"
            /\ outcome[c].kind = ProbeSilent(c).kind
            /\ outcome[c].value = ProbeSilent(c).value
            /\ outcome[c].error = ProbeSilent(c).error
            /\ outcome[c].message =
                   IF outcome[c].error = "ProcessError"
                   THEN ProbeSilent(c).message \o ProbeDiagnostic(c)
                   ELSE ProbeSilent(c).message

C12_Witness ==
    \E c \in Calls :
        /\ pc[c] = "settled"
        /\ ping[c].code = "1" /\ pingErr[c] = "ping: err\n"
        /\ arp[c].code = "0"
        /\ outcome[c].kind = "resolved"

\* the call of caller c ran the Darwin strategy to its end
DarwinOver(c) == Over(c) /\ strategy[c] = "macintosh"

\* the outcome of the call of caller c, had its table reader exited with 0
AfterZeroExit(c) ==
    lookupSettle(arpClose(strategy[c], ip[c], "0", buffer[c], errStream[c], pingErr[c]),
                 separator[c])

\* C13: in the Darwin strategy the call rejects with ProcessError exactly when the
\* table reader's exit code is not 0 and its captured stderr is not empty; after a
\* non-zero exit with empty stderr, stdout is parsed exactly as after a zero exit
C13_DarwinFatalOnlyWithStderr ==
    \A c \in Calls :
        DarwinOver(c) =>
            /\ outcome[c].error = "ProcessError" <=> (arp[c].code # "0" /\ errStream[c] # "")
            /\ (arp[c].code # "0" /\ errStream[c] = "") => outcome[c] = AfterZeroExit(c)

C13_Witness ==
    \E c \in Calls :
        /\ DarwinOver(c)
        /\ arp[c].code = "1" /\ errStream[c] = ""
        /\ arp[c].form = "row"
        /\ outcome[c].kind = "resolved"

\* the table reader of the Linux or Windows call of caller c closed with a code other than 0
ReaderFailed(c) ==
    /\ Over(c)
    /\ strategy[c] \in {"linux", "windows"}
    /\ arp[c].state = "closed"
    /\ arp[c].code # "0"

\* the command line of the table reader as a shell would show it
ReaderCommand(c) == "arp " \o (IF strategy[c] = "windows" THEN "-a " ELSE "-n ") \o ip[c]

\* C14: in the Linux and Windows strategies a table reader closing with a non-zero
\* code makes the call reject with ProcessError; the message includes the command
\* with its arguments, the exit code, the reader's stderr and the probe's stderr;
\* stdout is not parsed, even if it holds a valid row for ip
C14_ReaderFailureIsProcessError ==
    \A c \in Calls :
        ReaderFailed(c) =>
            /\ pc[c] = "settled"
            /\ outcome[c].kind = "rejected"
            /\ outcome[c].error = "ProcessError"
            /\ outcome[c].value = "" /\ result[c] = ""
            /\ includes(outcome[c].message, ReaderCommand(c))
            /\ includes(outcome[c].message, "Code #" \o arp[c].code)
            /\ includes(outcome[c].message, errStream[c])
            /\ includes(outcome[c].message, pingErr[c])

C14_Witness ==
    \E c \in Calls :
        /\ ReaderFailed(c)
        /\ strategy[c] = "windows"
        /\ arp[c].form = "row" /\ buffer[c] = arp[c].out
        /\ arp[c].code = "1"
        /\ errStream[c] = "arp: err\n"
        /\ pingErr[c] = "ping: err\n"

\* parts[3] of the Darwin call of caller c, "" when there is none
DarwinToken(c) ==
    LET parts == filterString(split(buffer[c], " "))
    IN  IF Has(parts, 3) THEN At(parts, 3) ELSE ""

\* one or two hex digits
IsHexGroup(g) == Len(g) \in {1, 2} /\ AllCharsOf(g, HexDigits)

\* colon-separated groups of one or two hex digits
IsGroupedToken(t) ==
    LET groups == split(t, ":")
    IN  t # "no" /\ \A i \in 1..Len(groups) : IsHexGroup(groups[i])

\* a hex digit in upper case
UpperDigit(ch) ==
    LET i == CHOOSE k \in 1..Len(HexDigits) : Ch(HexDigits, k) = ch
    IN  Ch("0123456789ABCDEFABCDEF", i)

\* a group as two uppercase digits
TwoDigits(g) ==
    IF Len(g) = 1 THEN "0" \o UpperDigit(g) ELSE UpperDigit(Ch(g, 1)) \o UpperDigit(Ch(g, 2))

RECURSIVE ColonJoined(_)
ColonJoined(groups) ==
    IF Len(groups) = 1 THEN groups[1] ELSE groups[1] \o ":" \o ColonJoined(Tail(groups))

\* every group of t as two uppercase digits, joined with ':'
Padded(t) ==
    LET groups == split(t, ":")
    IN  ColonJoined([i \in 1..Len(groups) |-> TwoDigits(groups[i])])

\* the Darwin call of caller c has parsed the output of its table reader
DarwinParsed(c) == DarwinOver(c) /\ outcome[c].error # "ProcessError"

\* C15: in the Darwin strategy a token at index 3 that is not 'no' and is made of
\* colon-separated groups of one or two hex digits is returned with each group
\* left-padded with '0' to two digits, uppercased and joined with ':';
\* a:b:c:d:e:f gives 0A:0B:0C:0D:0E:0F and 0:1a:2:3:4:5 gives 00:1A:02:03:04:05
C15_DarwinZeroPadding ==
    \A c \in Calls :
        (DarwinParsed(c) /\ IsGroupedToken(DarwinToken(c))) =>
            /\ pc[c] = "settled"
            /\ result[c] = Padded(DarwinToken(c))
            /\ outcome[c] = Resolved(separate(Padded(DarwinToken(c)), separator[c]))
            /\ DarwinToken(c) = "a:b:c:d:e:f" => result[c] = "0A:0B:0C:0D:0E:0F"
            /\ DarwinToken(c) = "0:1a:2:3:4:5" => result[c] = "00:1A:02:03:04:05"

C15_Witness ==
    \E c \in Calls :
        /\ DarwinParsed(c)
        /\ DarwinToken(c) = "a:b:c:d:e:f"
        /\ outcome[c] = Resolved("0A:0B:0C:0D:0E:0F")

\* the Windows call of caller c has parsed the output of its table reader
WindowsParsed(c) == Over(c) /\ strategy[c] = "windows" /\ ExitedZero(c)

\* the lines of the table, index 0 first
WindowsLines(c) == split(buffer[c], "\r\n")

\* the whitespace-separated tokens of line i
WindowsTokens(c, i) == filterString(split(At(WindowsLines(c), i), " "))

\* the indices of the scanned lines whose first token is ip
MatchingLines(c) ==
    {i \in 3..(Len(WindowsLines(c)) - 1) :
        Has(WindowsTokens(c, i), 0) /\ At(WindowsTokens(c, i), 0) = ip[c]}

FirstMatch(c) == CHOOSE i \in MatchingLines(c) : \A j \in MatchingLines(c) : i <= j

\* C16: the Windows strategy scans the lines from index 3 on, in order; the first
\* line whose first token equals ip exactly yields that line's second token with
\* every '-' replaced by ':' and uppercased; a line at index 0..2 that starts with ip
\* is ignored, a token that contains or prefixes ip does not match, and without a
\* matching line the call fails with NotFound
C16_WindowsParse ==
    \A c \in Calls :
        WindowsParsed(c) =>
            /\ MatchingLines(c) = {} =>
                    (pc[c] = "settled" /\ outcome[c].error = "NotFound")
            /\ (MatchingLines(c) # {} /\ Has(WindowsTokens(c, FirstMatch(c)), 1)) =>
                    /\ pc[c] = "settled"
                    /\ outcome[c].kind = "resolved"
                    /\ result[c] = toUpperCase(replaceAllChar(
                                       At(WindowsTokens(c, FirstMatch(c)), 1), "-", ":"))
            /\ arp[c].form = "early" => outcome[c].error = "NotFound"
            /\ arp[c].form = "table" =>
                    /\ IsMac(result[c], ":")
                    /\ OctetsOf(result[c], ":") = arp[c].mac

C16_Witness ==
    \E c \in Calls :
        /\ WindowsParsed(c)
        /\ arp[c].form = "table"
        /\ FirstMatch(c) = 5
        /\ MatchingLines(c) = {5, 6}
        /\ outcome[c].kind = "resolved"

\* the Linux call of caller c has parsed the output of its table reader
LinuxParsed(c) == Over(c) /\ strategy[c] = "linux" /\ ExitedZero(c)

\* the lines of stdout, the header first
LinuxLines(c) == split(buffer[c], "\n")

\* the tokens of the second line
LinuxTokens(c) == filterString(split(At(LinuxLines(c), 1), " "))

\* the token the claim names: index 2 of five tokens, index 1 otherwise
LinuxChosen(c) == IF Len(LinuxTokens(c)) = 5 THEN 2 ELSE 1

\* C17: after a zero exit the Linux strategy uses the second line of stdout only,
\* split on whitespace with empty tokens dropped; of five tokens it takes the one at
\* index 2, otherwise the one at index 1, and resolves with it uppercased; stdout
\* with fewer than two lines fails with NotFound
C17_LinuxParse ==
    \A c \in Calls :
        LinuxParsed(c) =>
            /\ pc[c] = "settled"
            /\ Len(LinuxLines(c)) < 2 => outcome[c].error = "NotFound"
            /\ (Len(LinuxLines(c)) >= 2 /\ Has(LinuxTokens(c), LinuxChosen(c))) =>
                    /\ outcome[c].kind = "resolved"
                    /\ result[c] = toUpperCase(At(LinuxTokens(c), LinuxChosen(c)))
            /\ arp[c].form = "row" =>
                    (IsMac(result[c], ":") /\ OctetsOf(result[c], ":") = arp[c].mac)
            /\ arp[c].form = "masked" => result[c] = "ETHER"
            /\ arp[c].form = "incomplete" => result[c] = "(INCOMPLETE)"
            /\ arp[c].form \in {"headerless", "empty"} => outcome[c].error = "NotFound"

C17_Witness ==
    \E c \in Calls :
        /\ LinuxParsed(c)
        /\ arp[c].form = "masked"
        /\ Len(LinuxTokens(c)) = 6
        /\ outcome[c] = Resolved("ETHER")

\* the table reader of the call of caller c ended by itself and was closed
ReaderEnded(c) == arp[c].state = "closed" /\ arp[c].code # "null"

\* the outcome computed from all the table reader printed, in one piece
FromTotals(c) ==
    lookupSettle(arpClose(strategy[c], ip[c], arp[c].code, arp[c].out, arp[c].err,
                          pingErr[c]),
                 separator[c])

\* C18: the table reader's output is parsed once, on its close event, after every
\* data event has been accumulated: nothing is settled while the reader runs, and
\* the outcome is that of the total stdout and stderr, in however many chunks and in
\* whatever order of stdout and stderr data events they came
C18_ParsedOnceOnClose ==
    \A c \in Calls :
        /\ pc[c] = "arp" => (outcome[c] = Pending /\ result[c] = "")
        /\ (Over(c) /\ ReaderEnded(c)) =>
            /\ buffer[c] = arp[c].out
            /\ errStream[c] = arp[c].err
            /\ outcome[c] = FromTotals(c)

C18_Witness ==
    \E c \in Calls :
        /\ Over(c) /\ ReaderEnded(c)
        /\ arp[c].pieces
        /\ arp[c].err # ""
        /\ outcome[c].kind = "resolved"

\* the table reader of the call of caller c has closed and its close callback has run
ReaderClosed(c) == strategy[c] # "" /\ arp[c].state = "closed"

\* C19: every call with a valid address on a supported platform settles, with one
\* resolve or one reject, once its table reader has closed, whatever the exit code
\* and the output: no parser path throws inside the close callback
C19_CloseCallbackSettles ==
    \A c \in Calls :
        ReaderClosed(c) =>
            /\ pc[c] = "settled"
            /\ outcome[c].kind \in {"resolved", "rejected"}

\* the OS identifier has id in it
Contains(id) ==
    \E i \in 1..(Len(platform) - Len(id) + 1) : SubSeq(platform, i, i + Len(id) - 1) = id

\* the call of caller c has come to the platform selection
Selecting(c) == calls[c] > 0 /\ isIP(ip[c]) # 0

\* the command lines of the probe and the table reader of a strategy
CommandsOf(strat, addr) ==
    IF strat = "windows" THEN {<<"ping", "-n", "1", addr>>, <<"arp", "-a", addr>>}
    ELSE IF strat \in {"linux", "macintosh"}
    THEN {<<"ping", "-c", "1", addr>>, <<"arp", "-n", addr>>}
    ELSE {}

\* C20: each call runs exactly one strategy: the Linux one when the OS identifier
\* contains 'linux', the Darwin one when it contains 'darwin' (which contains 'win'),
\* the Windows one only when it contains 'win' and neither 'linux' nor 'darwin';
\* the Windows probe and parser never run on a Darwin host
C20_PlatformPrecedence ==
    \A c \in Calls :
        Selecting(c) =>
            /\ Contains("linux") => strategy[c] = "linux"
            /\ (Contains("darwin") /\ ~Contains("linux")) => strategy[c] = "macintosh"
            /\ strategy[c] = "windows" <=>
                   (Contains("win") /\ ~Contains("linux") /\ ~Contains("darwin"))
            /\ strategy[c] = "" <=>
                   ~(Contains("win") \/ Contains("linux") \/ Contains("darwin"))
            /\ \A i \in 1..Len(spawned[c]) : spawned[c][i] \in CommandsOf(strategy[c], ip[c])
            /\ (platform = "darwin" /\ Over(c)) =>
                   outcome[c] = lookupSettle(macintoshArpClose(ip[c], arp[c].code, buffer[c],
                                                               errStream[c], pingErr[c]),
                                             separator[c])

C20_Witness ==
    \E c \in Calls :
        /\ platform = "darwin"
        /\ Contains("win")
        /\ pc[c] = "settled"
        /\ spawned[c] = <<<<"ping", "-c", "1", "1.2.3.4">>, <<"arp", "-n", "1.2.3.4">>>>
        /\ outcome[c] = Resolved("00:1A:02:03:04:05")

\* the timer is that of the process: there is one once the process is spawned, with
\* PROCESS_TIMEOUT to run; it is armed only until the close event of the process is
\* handled; the process is killed by it and by nothing else
OwnTimer(proc, timer) ==
    /\ proc.state = "none" <=> timer.state = "none"
    /\ timer.state # "none" => timer.ms = PROCESS_TIMEOUT
    /\ proc.state = "running" => timer.state = "armed"
    /\ timer.state = "armed" => proc.state \in {"running", "exited"}
    /\ proc.state = "closed" => timer.state \in {"cleared", "fired"}
    /\ proc.state = "killed" => timer.state = "fired"
    /\ proc.code = "null" => timer.state = "fired"

\* C21: each child process has one kill timer, armed at spawn and cleared when the
\* close event of that process is handled: no timer is armed for a closed process,
\* the table reader is killed by its own timer only, and no timer is armed once the
\* call is over
C21_TimersScopedToProcess ==
    \A c \in Calls :
        /\ OwnTimer(ping[c], pingTimer[c])
        /\ OwnTimer(arp[c], arpTimer[c])
        /\ pingTimer[c].state = "armed" => arp[c].state = "none"
        /\ Over(c) => (pingTimer[c].state # "armed" /\ arpTimer[c].state # "armed")

C21_Witness ==
    \E c \in Calls :
        /\ pc[c] = "settled"
        /\ pingTimer[c].state = "fired" /\ ping[c].code = "null"
        /\ arpTimer[c].state = "cleared" /\ arp[c].code = "0"
        /\ outcome[c].kind = "resolved"

====
